---- MODULE Spec2Model ----
(***************************************************************************)
(* The tool-call path of the TMDB MCP server: decoding a call_tool request *)
(* into a TmdbTools value, GetActorInfo::invoke and                        *)
(* GetMoviesByActor::invoke, and the TmdbClient calls they await.  One     *)
(* invocation is followed from the request to its outcome; every await     *)
(* (send, then the body read) is a step at which the movie-database        *)
(* service answers.  Invocations share no mutable state, so they are       *)
(* modelled one after another.                                             *)
(***************************************************************************)
EXTENDS Integers, Sequences, FiniteSets, TLC

VARIABLES pc, params, tool, requests, responses, outcome

vars == <<pc, params, tool, requests, responses, outcome>>

\* ------------------------------------------------------------------ bounds
\* longest "results" array of a person search response
MaxResults == 2
\* longest "results" array of a movie discovery response
MaxMovies == 2
\* longest image body, in bytes
MaxBytes == 2

\* sequences over S of length 0..n
SeqUpTo(S, n) == UNION {[1..k -> S] : k \in 0..n}

\* ------------------------------------------------------- text and numbers
Digits == "0123456789"

RECURSIVE NatToString(_)
\* Display of an unsigned integer: its decimal digits, no padding
NatToString(n) ==
    IF n < 10 THEN SubSeq(Digits, n + 1, n + 1)
    ELSE NatToString(n \div 10) \o SubSeq(Digits, (n % 10) + 1, (n % 10) + 1)

\* Display of a signed integer (i64::to_string, "{}" of an integer)
IntToString(n) == IF n < 0 THEN "-" \o NatToString(0 - n) ELSE NatToString(n)

\* Option<String>: None, or Some(s)
None == [some |-> FALSE, s |-> ""]
Some(str) == [some |-> TRUE, s |-> str]
\* Option<String>::unwrap_or_default
unwrap_or_default(opt) == IF opt.some THEN opt.s ELSE ""

\* A Rust String is a sequence of Unicode scalar values held in UTF-8; len()
\* and the range of a slice count bytes.  A text the code only compares,
\* passes along or concatenates is held as a TLA+ string.  The texts that
\* reach impl Display for MovieDetail, which slices one of them by bytes, and
\* the text built from them, are held as sequences of scalar values (code
\* points), so that their byte lengths are the ones the code sees.
\* the ASCII characters 32..95 and 97..126, in code order
PrintableLow == " !\"#$%&'()*+,-./0123456789:;<=>?@ABCDEFGHIJKLMNOPQRSTUVWXYZ[\\]^_"
PrintableHigh == "abcdefghijklmnopqrstuvwxyz{|}~"

\* the position of a character in a text that holds it
IndexIn(str, ch) == CHOOSE i \in 1..Len(str) : SubSeq(str, i, i) = ch

\* the code point of an ASCII character
CodeOf(ch) ==
    IF ch = "\n" THEN 10
    ELSE IF \E i \in 1..Len(PrintableLow) : SubSeq(PrintableLow, i, i) = ch
    THEN 31 + IndexIn(PrintableLow, ch)
    ELSE 96 + IndexIn(PrintableHigh, ch)

\* the scalar values of an ASCII text
Chars(str) == [k \in 1..Len(str) |-> CodeOf(SubSeq(str, k, k))]

\* char::len_utf8
Utf8Width(c) ==
    IF c < 128 THEN 1 ELSE IF c < 2048 THEN 2 ELSE IF c < 65536 THEN 3 ELSE 4

RECURSIVE ByteLen(_)
\* str::len: the length of the text in bytes
ByteLen(text) ==
    IF Len(text) = 0 THEN 0
    ELSE Utf8Width(Head(text)) + ByteLen(Tail(text))

\* the prefixes of text that are exactly k bytes long (at most one)
PrefixesOfBytes(text, k) ==
    {j \in 0..Len(text) : ByteLen(SubSeq(text, 1, j)) = k}

\* str::is_char_boundary(k): byte k is the start of a character or the end
is_char_boundary(text, k) == PrefixesOfBytes(text, k) # {}

\* &text[0..k], where k is a character boundary (elsewhere the slice panics)
ByteSlice(text, k) == SubSeq(text, 1, CHOOSE j \in PrefixesOfBytes(text, k) : TRUE)

Base64Alphabet == "ABCDEFGHIJKLMNOPQRSTUVWXYZabcdefghijklmnopqrstuvwxyz0123456789+/"
B64Char(i) == SubSeq(Base64Alphabet, i + 1, i + 1)

RECURSIVE Base64Encode(_)
\* general_purpose::STANDARD.encode: 3 bytes -> 4 characters, '=' padding
Base64Encode(bytes) ==
    IF Len(bytes) = 0 THEN ""
    ELSE IF Len(bytes) = 1 THEN
        B64Char(bytes[1] \div 4) \o B64Char((bytes[1] % 4) * 16) \o "=="
    ELSE IF Len(bytes) = 2 THEN
        B64Char(bytes[1] \div 4)
        \o B64Char((bytes[1] % 4) * 16 + bytes[2] \div 16)
        \o B64Char((bytes[2] % 16) * 4) \o "="
    ELSE
        B64Char(bytes[1] \div 4)
        \o B64Char((bytes[1] % 4) * 16 + bytes[2] \div 16)
        \o B64Char((bytes[2] % 16) * 4 + bytes[3] \div 64)
        \o B64Char(bytes[3] % 64)
        \o Base64Encode(SubSeq(bytes, 4, Len(bytes)))

\* ------------------------------------------------ the inbound invocation
\* A JSON value of the argument bag.  "int" is an integer an i64 holds,
\* "bigint" an integer above i64::MAX, "absent" a key the bag does not have.
JAbsent == [kind |-> "absent", s |-> "", n |-> 0]
JNull == [kind |-> "null", s |-> "", n |-> 0]
JFloat == [kind |-> "float", s |-> "", n |-> 0]
JBigInt == [kind |-> "bigint", s |-> "", n |-> 0]
JStr(str) == [kind |-> "string", s |-> str, n |-> 0]
JInt(i) == [kind |-> "int", s |-> "", n |-> i]

ActorNames == {"", "Al", "Bo Li"}
ActorIds == {-3, 7, 1234}
NameArgs == {JAbsent, JNull, JInt(7)} \cup {JStr(a) : a \in ActorNames}
IdArgs == {JAbsent, JNull, JFloat, JBigInt, JStr("7")} \cup {JInt(i) : i \in ActorIds}

ToolNames == {"get_actor_info", "get_movies_by_actor", "get_movie_info", ""}

\* CallToolRequestParams: the tool name and the argument bag
CallToolRequestParams ==
    [name : ToolNames, arguments : [actor_name : NameArgs, actor_id : IdArgs]]

NoParams == [name |-> "", arguments |-> [actor_name |-> JAbsent, actor_id |-> JAbsent]]

\* ----------------------------------------------------------- TmdbTools
NoTool == [variant |-> "none", actor_name |-> "", actor_id |-> 0]
GetActorInfo(name) == [variant |-> "GetActorInfo", actor_name |-> name, actor_id |-> 0]
GetMoviesByActor(id) == [variant |-> "GetMoviesByActor", actor_name |-> "", actor_id |-> id]

\* Deserialize of GetActorInfo: actor_name is a required String
DeserializeGetActorInfo(arguments) ==
    IF arguments.actor_name.kind = "string"
    THEN [ok |-> TRUE, tool |-> GetActorInfo(arguments.actor_name.s)]
    ELSE [ok |-> FALSE, tool |-> NoTool]

\* Deserialize of GetMoviesByActor: actor_id is a required i64
DeserializeGetMoviesByActor(arguments) ==
    IF arguments.actor_id.kind = "int"
    THEN [ok |-> TRUE, tool |-> GetMoviesByActor(arguments.actor_id.n)]
    ELSE [ok |-> FALSE, tool |-> NoTool]

\* a decoder that fills a missing or mistyped actor_id with the default
TryFromDefaulting(p) ==
    IF p.name = "get_actor_info" THEN DeserializeGetActorInfo(p.arguments)
    ELSE [ok |-> TRUE,
          tool |-> GetMoviesByActor(IF p.arguments.actor_id.kind = "int"
                                    THEN p.arguments.actor_id.n ELSE 0)]

\* a decoder that rejects the empty actor name
TryFromNonEmpty(p) ==
    IF p.name = "get_actor_info"
       THEN IF p.arguments.actor_name.kind = "string" /\ p.arguments.actor_name.s # ""
            THEN [ok |-> TRUE, tool |-> GetActorInfo(p.arguments.actor_name.s)]
            ELSE [ok |-> FALSE, tool |-> NoTool]
    ELSE IF p.name = "get_movies_by_actor" THEN DeserializeGetMoviesByActor(p.arguments)
    ELSE [ok |-> FALSE, tool |-> NoTool]

\* TmdbTools::try_from(params): the tool the name registers, decoded from the bag
TryFrom(p) ==
    IF p.name = "get_actor_info" THEN DeserializeGetActorInfo(p.arguments)
    ELSE IF p.name = "get_movies_by_actor" THEN DeserializeGetMoviesByActor(p.arguments)
    ELSE [ok |-> FALSE, tool |-> NoTool]

\* ------------------------------------------------------------ outcomes
TextContent(str) == [type |-> "text", text |-> str, data |-> "", mime_type |-> ""]
ImageContent(b64, mime) == [type |-> "image", text |-> "", data |-> b64, mime_type |-> mime]

NoMeta == [has |-> FALSE, actor_id |-> 0]

\* the invocation has not ended
NoOutcome == [kind |-> "none", is_error |-> FALSE, content |-> <<>>,
              message |-> "", meta |-> NoMeta]
\* Err(CallToolError) returned by the handler
Err(msg) == [kind |-> "Err", is_error |-> FALSE, content |-> <<>>,
             message |-> msg, meta |-> NoMeta]
\* Ok(CallToolResult) returned by the handler
Ok(content, is_error, meta) ==
    [kind |-> "Ok", is_error |-> is_error, content |-> content,
     message |-> "", meta |-> meta]
\* the invocation panicked: nothing is returned
Panic == [kind |-> "Panic", is_error |-> FALSE, content |-> <<>>,
          message |-> "", meta |-> NoMeta]

\* CallToolResult::with_error(CallToolError::from_message(msg))
with_error(msg) == Ok(<<TextContent(msg)>>, TRUE, NoMeta)

\* a failure of a client call handed back as an error-flagged result
NetworkFailureAsResult(msg) == with_error(msg)

\* .map_err(|err| CallToolError::from_message(err.to_string()))?
NetworkFailure(msg) == Err(msg)

\* ------------------------------------------- the movie-database service
BASE_URL == "https://api.themoviedb.org/3"

\* an outbound GET: the endpoint it addresses, its URL and its query pairs
Request(endpoint, url, query) == [endpoint |-> endpoint, url |-> url, query |-> query]

\* HTTP statuses the service answers with; the JSON calls never look at the
\* status, the image fetch passes it to error_for_status
Statuses == {200, 404}
ImageStatuses == {200, 304, 404}
\* Response::error_for_status is Err: the status is a client or server error
\* (4xx, 5xx); 1xx, 2xx and 3xx pass
is_error_status(status) == status >= 400 /\ status <= 599

\* A response: sent is FALSE when the transport failed (no status, no body);
\* body.valid is FALSE when the body does not parse as the shape expected.
\* The body is Unread from the moment send().await returns until the body
\* read returns, and for good when the code never reads it.
Response(sent, status, body) == [sent |-> sent, status |-> status, body |-> body]
NoBody == [valid |-> FALSE]
Unread == [valid |-> FALSE, unread |-> TRUE]
TransportError == Response(FALSE, 0, NoBody)

\* what send().await returns: a transport error, or a status with the body
\* still to be read
Sent(statuses) == {TransportError} \cup {Response(TRUE, st, Unread) : st \in statuses}

\* an element of a search "results" array: its "id" when it is an integer
NoId == [has_id |-> FALSE, id |-> 0]
WithId(i) == [has_id |-> TRUE, id |-> i]
PersonIds == {5, 12}
SearchItems == {NoId} \cup {WithId(i) : i \in PersonIds}

\* search bodies: not JSON; JSON without "results"; "results" not an array;
\* "results" an array
SearchBodies ==
    {NoBody,
     [valid |-> TRUE, has_results |-> FALSE, is_array |-> FALSE, items |-> <<>>],
     [valid |-> TRUE, has_results |-> TRUE, is_array |-> FALSE, items |-> <<>>]}
    \cup {[valid |-> TRUE, has_results |-> TRUE, is_array |-> TRUE, items |-> it] :
            it \in SeqUpTo(SearchItems, MaxResults)}

\* PersonDetails, the fields the tool reads
PersonDetails ==
    [id : {5, 12}, name : {"Al Po"}, birthday : {None, Some("1946-07-06")},
     place_of_birth : {None, Some("NYC")}, biography : {"Bio."},
     profile_path : {None, Some("/p.jpg")}]

DetailBodies == {NoBody} \cup {[valid |-> TRUE, details |-> d] : d \in PersonDetails}

\* MovieDetail, the fields Display reads; titles are single-line text.
\* 8364 is the euro sign (3 bytes), 233 is e-acute (2 bytes): byte 4 of
\* "ab" + euro and of "abc" + e-acute lies inside a character, byte 4 of
\* "a" + euro + euro lies between the two euro signs.
Titles == {Chars("Rocky"), Chars("Up")}
ReleaseDates ==
    {Chars(""), Chars("199"), Chars("1993"), Chars("1993-11-19"),
     <<97, 98, 8364>>, <<97, 98, 99, 233>>, <<97, 8364, 8364>>}
MovieDetail == [title : Titles, release_date : ReleaseDates]

DiscoverBodies ==
    {NoBody} \cup {[valid |-> TRUE, results |-> ms] : ms \in SeqUpTo(MovieDetail, MaxMovies)}

Bytes == {0, 77, 255}
ImageBodies == {NoBody} \cup {[valid |-> TRUE, bytes |-> bs] : bs \in SeqUpTo(Bytes, MaxBytes)}

\* ------------------------------------------------------------ TmdbClient
\* Result<T, reqwest::Error>
Failed(msg) == [ok |-> FALSE, err |-> msg]
SendError == "error sending request"
DecodeError == "error decoding response body"
StatusError(status) ==
    "HTTP status " \o (IF status < 500 THEN "client" ELSE "server")
    \o " error (" \o NatToString(status) \o ")"

\* arr.iter().find_map(|item| item.get("id").and_then(|id| id.as_i64()))
find_map_id(items) ==
    IF \E k \in 1..Len(items) : items[k].has_id
    THEN LET first == CHOOSE k \in 1..Len(items) :
                         /\ items[k].has_id
                         /\ \A j \in 1..(k - 1) : ~items[j].has_id
         IN [some |-> TRUE, id |-> items[first].id]
    ELSE [some |-> FALSE, id |-> 0]

\* the request TmdbClient::actor_id sends
SearchRequest(actor_name) ==
    Request("search", BASE_URL \o "/search/person",
            <<<<"query", actor_name>>, <<"language", "en-US">>>>)

\* a search that answers a failed request with identifier 0
actor_id_swallowing(r) ==
    IF ~r.sent \/ ~r.body.valid THEN [ok |-> TRUE, value |-> [some |-> TRUE, id |-> 0]]
    ELSE IF r.body.has_results /\ r.body.is_array
         THEN [ok |-> TRUE, value |-> find_map_id(r.body.items)]
    ELSE [ok |-> TRUE, value |-> [some |-> FALSE, id |-> 0]]

\* TmdbClient::actor_id, from the response on: Result<Option<i64>>
actor_id(r) ==
    IF ~r.sent THEN Failed(SendError)
    ELSE IF ~r.body.valid THEN Failed(DecodeError)
    ELSE IF r.body.has_results /\ r.body.is_array
         THEN [ok |-> TRUE, value |-> find_map_id(r.body.items)]
    ELSE [ok |-> TRUE, value |-> [some |-> FALSE, id |-> 0]]

\* the request TmdbClient::actor_info sends once the identifier is known
DetailRequest(person_id) ==
    Request("person", BASE_URL \o "/person/" \o IntToString(person_id), <<>>)

\* TmdbClient::actor_info, from the detail response on: Result<PersonDetails>
actor_info(r) ==
    IF ~r.sent THEN Failed(SendError)
    ELSE IF ~r.body.valid THEN Failed(DecodeError)
    ELSE [ok |-> TRUE, value |-> r.body.details]

\* the request TmdbClient::movies_by_actor sends
DiscoverRequest(id) ==
    Request("discover", BASE_URL \o "/discover/movie", <<<<"with_cast", IntToString(id)>>>>)

\* TmdbClient::movies_by_actor, from the response on: Result<Vec<MovieDetail>>
movies_by_actor(r) ==
    IF ~r.sent THEN Failed(SendError)
    ELSE IF ~r.body.valid THEN Failed(DecodeError)
    ELSE [ok |-> TRUE, value |-> r.body.results]

\* TmdbClient::resolve_image_url
resolve_image_url(image_path) == "https://image.tmdb.org/t/p/" \o "w92" \o image_path

\* the request TmdbClient::image_as_base64 sends
ImageRequest(image_path) == Request("image", resolve_image_url(image_path), <<>>)

\* TmdbClient::image_url_to_base64, from the response on: Result<String>
image_url_to_base64(r) ==
    IF ~r.sent THEN Failed(SendError)
    ELSE IF is_error_status(r.status) THEN Failed(StatusError(r.status))
    ELSE IF ~r.body.valid THEN Failed(DecodeError)
    ELSE [ok |-> TRUE, value |-> Base64Encode(r.body.bytes)]

\* --------------------------------------------------- tool implementations
\* impl Display for MovieDetail panics: release_date[0..4] is taken when the
\* date is longer than four bytes, and byte 4 is inside a character
MovieDetailDisplayPanics(m) ==
    ByteLen(m.release_date) > 4 /\ ~is_char_boundary(m.release_date, 4)

\* impl Display for MovieDetail: "{title} {(year)}", the year (the first four
\* bytes of the release date) only when the date is longer than four bytes;
\* the slice panics when byte 4 is not a character boundary
MovieDetailDisplay(m) ==
    IF MovieDetailDisplayPanics(m) THEN Panic
    ELSE m.title \o Chars(" ")
         \o (IF ByteLen(m.release_date) > 4
             THEN Chars("(") \o ByteSlice(m.release_date, 4) \o Chars(")")
             ELSE <<>>)

RECURSIVE JoinLines(_)
\* Vec<String>::join("\n")
JoinLines(items) ==
    IF Len(items) = 0 THEN <<>>
    ELSE IF Len(items) = 1 THEN items[1]
    ELSE items[1] \o Chars("\n") \o JoinLines(Tail(items))

\* format!("{}. {}", index, movie) panics for one of the movies
NumberedListPanics(movies) ==
    \E k \in 1..Len(movies) : MovieDetailDisplayPanics(movies[k])

\* movies.iter().enumerate().map(|(index, movie)| format!("{}. {}", index, movie))
\*       .collect::<Vec<_>>().join("\n")
NumberedList(movies) ==
    IF NumberedListPanics(movies) THEN Panic
    ELSE JoinLines([k \in 1..Len(movies) |->
                       Chars(IntToString(k - 1)) \o Chars(". ")
                       \o MovieDetailDisplay(movies[k])])

\* an invoke that formats whatever sequence it is given, the empty one too
MoviesResultUnchecked(movies) ==
    IF NumberedListPanics(movies) THEN Panic
    ELSE Ok(<<TextContent(NumberedList(movies))>>, FALSE, NoMeta)

\* GetMoviesByActor::invoke once the movies are known
MoviesResult(movies) ==
    IF Len(movies) = 0 THEN with_error("No movies were found!")
    ELSE IF NumberedListPanics(movies) THEN Panic
    ELSE Ok(<<TextContent(NumberedList(movies))>>, FALSE, NoMeta)

\* a message that leaves the queried name out
ActorNotFoundAnonymous(actor_name) == with_error("No actors matching the name were found")

\* GetActorInfo::invoke when actor_info returns Ok(None)
ActorNotFound(actor_name) ==
    with_error("No actors matching the name \"" \o actor_name \o "\" were found")

\* the text block of GetActorInfo::invoke
ActorInfoText(d) ==
    "ID: " \o NatToString(d.id)
    \o "\nName: " \o d.name
    \o "\nDate of Birth: " \o unwrap_or_default(d.birthday)
    \o "\nPlace of Birth: " \o unwrap_or_default(d.place_of_birth)
    \o "\nBiography: " \o d.biography

\* a result that carries the text block alone
ActorInfoResultTextOnly(d, image_data) ==
    Ok(<<TextContent(ActorInfoText(d))>>, FALSE, [has |-> TRUE, actor_id |-> d.id])

\* the CallToolResult GetActorInfo::invoke returns
ActorInfoResult(d, image_data) ==
    Ok(<<TextContent(ActorInfoText(d)), ImageContent(image_data, "image/jpeg")>>,
       FALSE, [has |-> TRUE, actor_id |-> d.id])

\* the actor details the invocation holds: the parsed detail response
Details == responses[2].body.details

\* ---------------------------------------------------------------- actions
Init ==
    /\ pc = "idle"
    /\ params = NoParams
    /\ tool = NoTool
    /\ requests = <<>>
    /\ responses = <<>>
    /\ outcome = NoOutcome

\* McpHandler::handle_call_tool_request up to its first await: decode, then
\* dispatch to the tool's invoke, which sends its first request
handle_call_tool_request ==
    /\ pc = "idle"
    /\ \E p \in CallToolRequestParams :
          LET requested_tool == TryFrom(p) IN
          /\ params' = p
          /\ responses' = <<>>
          /\ IF ~requested_tool.ok
             THEN /\ tool' = NoTool
                  /\ requests' = <<>>
                  /\ outcome' = Err("invalid request")
                  /\ pc' = "returned"
             ELSE /\ tool' = requested_tool.tool
                  /\ outcome' = NoOutcome
                  /\ IF requested_tool.tool.variant = "GetActorInfo"
                     THEN /\ requests' = <<SearchRequest(requested_tool.tool.actor_name)>>
                          /\ pc' = "search"
                     ELSE /\ requests' = <<DiscoverRequest(requested_tool.tool.actor_id)>>
                          /\ pc' = "discover"

\* GetActorInfo::invoke once actor_id has the answer r of the person search:
\* it returns on failure or None, and actor_info goes on to the detail fetch
AfterSearch(r) ==
    LET person_id == actor_id(r) IN
    IF ~person_id.ok
    THEN /\ outcome' = NetworkFailure(person_id.err)
         /\ pc' = "returned"
         /\ UNCHANGED requests
    ELSE IF ~person_id.value.some
    THEN /\ outcome' = ActorNotFound(tool.actor_name)
         /\ pc' = "returned"
         /\ UNCHANGED requests
    ELSE /\ requests' = Append(requests, DetailRequest(person_id.value.id))
         /\ pc' = "detail"
         /\ UNCHANGED outcome

\* send().await of the person search returns: on a transport error actor_id
\* has its answer; otherwise the body is read
SearchSent ==
    /\ pc = "search"
    /\ \E r \in Sent(Statuses) :
          /\ responses' = Append(responses, r)
          /\ IF ~r.sent
             THEN AfterSearch(r)
             ELSE /\ pc' = "search_body"
                  /\ UNCHANGED <<outcome, requests>>
    /\ UNCHANGED <<params, tool>>

\* response.json().await of the person search returns: actor_id has its answer
SearchBody ==
    /\ pc = "search_body"
    /\ \E b \in SearchBodies :
          LET r == Response(TRUE, responses[Len(responses)].status, b) IN
          /\ responses' = [responses EXCEPT ![Len(responses)] = r]
          /\ AfterSearch(r)
    /\ UNCHANGED <<params, tool>>

\* send().await of the detail fetch returns
DetailSent ==
    /\ pc = "detail"
    /\ \E r \in Sent(Statuses) :
          /\ responses' = Append(responses, r)
          /\ IF ~r.sent
             THEN /\ outcome' = NetworkFailure(actor_info(r).err)
                  /\ pc' = "returned"
             ELSE /\ pc' = "detail_body"
                  /\ UNCHANGED outcome
    /\ UNCHANGED <<params, tool, requests>>

\* response.json::<PersonDetails>().await returns: actor_info returns;
\* GetActorInfo::invoke formats the text, unwraps the profile path and sends
\* the image request
DetailBody ==
    /\ pc = "detail_body"
    /\ \E b \in DetailBodies :
          LET r == Response(TRUE, responses[Len(responses)].status, b)
              details == actor_info(r)
          IN
          /\ responses' = [responses EXCEPT ![Len(responses)] = r]
          /\ IF ~details.ok
             THEN /\ outcome' = NetworkFailure(details.err)
                  /\ pc' = "returned"
                  /\ UNCHANGED requests
             ELSE IF ~details.value.profile_path.some
             THEN /\ outcome' = Panic
                  /\ pc' = "panicked"
                  /\ UNCHANGED requests
             ELSE /\ requests' = Append(requests, ImageRequest(details.value.profile_path.s))
                  /\ pc' = "image"
                  /\ UNCHANGED outcome
    /\ UNCHANGED <<params, tool>>

\* send().await of the image fetch returns and error_for_status is applied:
\* on a transport error or a 4xx/5xx status image_as_base64 returns Err, which
\* GetActorInfo::invoke unwraps; the body is not read
ImageSent ==
    /\ pc = "image"
    /\ \E r \in Sent(ImageStatuses) :
          /\ responses' = Append(responses, r)
          /\ IF ~r.sent \/ is_error_status(r.status)
             THEN /\ outcome' = Panic
                  /\ pc' = "panicked"
             ELSE /\ pc' = "image_body"
                  /\ UNCHANGED outcome
    /\ UNCHANGED <<params, tool, requests>>

\* response.bytes().await returns: image_as_base64 returns and is unwrapped;
\* GetActorInfo::invoke returns the text and the image
ImageBody ==
    /\ pc = "image_body"
    /\ \E b \in ImageBodies :
          LET r == Response(TRUE, responses[Len(responses)].status, b)
              image_data == image_url_to_base64(r)
          IN
          /\ responses' = [responses EXCEPT ![Len(responses)] = r]
          /\ IF ~image_data.ok
             THEN /\ outcome' = Panic
                  /\ pc' = "panicked"
             ELSE /\ outcome' = ActorInfoResult(Details, image_data.value)
                  /\ pc' = "returned"
    /\ UNCHANGED <<params, tool, requests>>

\* send().await of the movie discovery returns
DiscoverSent ==
    /\ pc = "discover"
    /\ \E r \in Sent(Statuses) :
          /\ responses' = Append(responses, r)
          /\ IF ~r.sent
             THEN /\ outcome' = NetworkFailure(movies_by_actor(r).err)
                  /\ pc' = "returned"
             ELSE /\ pc' = "discover_body"
                  /\ UNCHANGED outcome
    /\ UNCHANGED <<params, tool, requests>>

\* response.json().await of the movie discovery returns: movies_by_actor
\* returns; GetMoviesByActor::invoke returns, or panics while formatting a
\* movie
DiscoverBody ==
    /\ pc = "discover_body"
    /\ \E b \in DiscoverBodies :
          LET r == Response(TRUE, responses[Len(responses)].status, b)
              movies == movies_by_actor(r)
          IN
          /\ responses' = [responses EXCEPT ![Len(responses)] = r]
          /\ outcome' = IF ~movies.ok THEN NetworkFailure(movies.err)
                        ELSE MoviesResult(movies.value)
          /\ pc' = IF movies.ok /\ MoviesResult(movies.value) = Panic
                   THEN "panicked" ELSE "returned"
    /\ UNCHANGED <<params, tool, requests>>

\* the invocation is over; the handler is ready for the next one, which
\* shares nothing with it
InvocationEnds ==
    /\ pc \in {"returned", "panicked"}
    /\ pc' = "idle"
    /\ params' = NoParams
    /\ tool' = NoTool
    /\ requests' = <<>>
    /\ responses' = <<>>
    /\ outcome' = NoOutcome

Next ==
    \/ handle_call_tool_request
    \/ SearchSent
    \/ SearchBody
    \/ DetailSent
    \/ DetailBody
    \/ ImageSent
    \/ ImageBody
    \/ DiscoverSent
    \/ DiscoverBody
    \/ InvocationEnds

Spec == Init /\ [][Next]_vars

\* ------------------------------------------------- vocabulary of the claims
Registered == {"get_actor_info", "get_movies_by_actor"}

\* the invocation names no registered tool, or its bag lacks the tool's
\* required field or gives it another type
Malformed(p) ==
    \/ p.name \notin Registered
    \/ p.name = "get_actor_info" /\ p.arguments.actor_name.kind # "string"
    \/ p.name = "get_movies_by_actor" /\ p.arguments.actor_id.kind # "int"

\* the invocation has ended, by a return or by a panic
Ended == pc \in {"returned", "panicked"}

\* the k-th request of the invocation failed: no response, a body that was
\* read and does not parse, or (image fetch, the one call that checks it) a 4xx/5xx status
FailedAt(k) ==
    \/ ~responses[k].sent
    \/ responses[k].body # Unread /\ ~responses[k].body.valid
    \/ requests[k].endpoint = "image" /\ is_error_status(responses[k].status)

\* the search answered with a parsable body that holds no identifier
SearchYieldsNoId(r) ==
    /\ r.sent
    /\ r.body.valid
    /\ \/ ~r.body.has_results
       \/ ~r.body.is_array
       \/ \A k \in 1..Len(r.body.items) : ~r.body.items[k].has_id

\* the outcome is a returned result carrying the error flag and this message
IsErrorResult(o, msg) ==
    /\ o.kind = "Ok"
    /\ o.is_error
    /\ Len(o.content) = 1
    /\ o.content[1].type = "text"
    /\ o.content[1].text = msg

\* the lines of a text (a sequence of scalar values), split at its newline
\* characters
NewlinesOf(str) == {k \in 1..Len(str) : str[k] = 10}
NthNewline(str, j) ==
    CHOOSE k \in NewlinesOf(str) : Cardinality({m \in NewlinesOf(str) : m < k}) = j - 1
LinesOf(str) ==
    [j \in 1..(Cardinality(NewlinesOf(str)) + 1) |->
        SubSeq(str,
               IF j = 1 THEN 1 ELSE NthNewline(str, j - 1) + 1,
               IF j = Cardinality(NewlinesOf(str)) + 1 THEN Len(str)
               ELSE NthNewline(str, j) - 1)]

StartsWith(str, prefix) ==
    Len(str) >= Len(prefix) /\ SubSeq(str, 1, Len(prefix)) = prefix
EndsWith(str, suffix) ==
    Len(str) >= Len(suffix) /\ SubSeq(str, Len(str) - Len(suffix) + 1, Len(str)) = suffix
HasChar(str, ch) == \E k \in 1..Len(str) : str[k] = CodeOf(ch)

\* get_movies_by_actor has returned after a discovery that parsed
MoviesDiscovered ==
    /\ pc = "returned"
    /\ tool.variant = "GetMoviesByActor"
    /\ responses[1].sent
    /\ responses[1].body.valid

\* -------------------------------------------------------------------- C1
\* C1: an invocation that names an unregistered tool, or whose bag omits the
\* tool's required field or mistypes it, fails at decoding (the handler
\* returns Err, no tool was built) and has issued no outbound request at any
\* point.
C1_MalformedIssuesNoRequest ==
    (pc # "idle" /\ Malformed(params)) =>
        /\ requests = <<>>
        /\ responses = <<>>
        /\ tool = NoTool
        /\ pc = "returned"
        /\ outcome.kind = "Err"

\* a get_movies_by_actor call whose actor_id is not an integer was rejected
C1_Witness ==
    /\ pc = "returned"
    /\ params.name = "get_movies_by_actor"
    /\ params.arguments.actor_id = JFloat
    /\ outcome.kind = "Err"
    /\ requests = <<>>

\* -------------------------------------------------------------------- C2
\* C2: once decoding succeeded, every failure of a client call (search,
\* detail, discovery or image fetch) ends the invocation with an error the
\* caller sees, and get_actor_info panics only when the actor record has no
\* profile-image path.
C2_FailuresBecomeErrors ==
    (Ended /\ tool # NoTool) =>
        /\ (\E k \in 1..Len(responses) : FailedAt(k)) =>
               \/ outcome.kind = "Err"
               \/ outcome.kind = "Ok" /\ outcome.is_error
        /\ (pc = "panicked" /\ tool.variant = "GetActorInfo") =>
               /\ Len(responses) = 2
               /\ ~FailedAt(2)
               /\ ~responses[2].body.details.profile_path.some

\* -------------------------------------------------------------------- C3
\* C3: when the person search succeeds and yields no identifier,
\* get_actor_info returns a result (not Err) with the error flag and the
\* single text 'No actors matching the name "<actor_name>" were found', the
\* queried name verbatim.
C3_NoActorNamesTheQuery ==
    (pc = "returned" /\ tool.variant = "GetActorInfo" /\ Len(responses) = 1
        /\ SearchYieldsNoId(responses[1])) =>
        IsErrorResult(outcome,
                      "No actors matching the name \""
                      \o params.arguments.actor_name.s \o "\" were found")

\* the search for "Bo Li" answered with an empty results array
C3_Witness ==
    /\ pc = "returned"
    /\ params.arguments.actor_name = JStr("Bo Li")
    /\ Len(responses) = 1
    /\ responses[1].sent
    /\ responses[1].body.valid
    /\ responses[1].body.is_array
    /\ responses[1].body.items = <<>>
    /\ IsErrorResult(outcome, "No actors matching the name \"Bo Li\" were found")

\* -------------------------------------------------------------------- C4
\* C4: when the discovery succeeds with an empty results list,
\* get_movies_by_actor returns a result with the error flag and the message
\* 'No movies were found!'; a non-error result is never built from an empty
\* movie sequence.
C4_NoMoviesIsAnError ==
    MoviesDiscovered =>
        /\ responses[1].body.results = <<>> =>
               IsErrorResult(outcome, "No movies were found!")
        /\ (outcome.kind = "Ok" /\ ~outcome.is_error) =>
               responses[1].body.results # <<>>

\* the discovery for an actor answered with no movie
C4_Witness ==
    /\ MoviesDiscovered
    /\ responses[1].body.results = <<>>
    /\ outcome.is_error

\* -------------------------------------------------------------------- C5
\* C5: for a discovery of N >= 1 movies, get_movies_by_actor returns one text
\* item of exactly N lines; line i (from 0) begins with the decimal i, then
\* '. ', then the title of the i-th movie of the upstream sequence.
C5_NumberedInUpstreamOrder ==
    (Ended /\ tool.variant = "GetMoviesByActor" /\ responses[1].sent
        /\ responses[1].body.valid /\ responses[1].body.results # <<>>) =>
        LET movies == responses[1].body.results IN
        /\ pc = "returned"
        /\ outcome.kind = "Ok"
        /\ ~outcome.is_error
        /\ Len(outcome.content) = 1
        /\ outcome.content[1].type = "text"
        /\ LET lines == LinesOf(outcome.content[1].text) IN
           /\ Len(lines) = Len(movies)
           /\ \A i \in 0..(Len(movies) - 1) :
                 StartsWith(lines[i + 1],
                            Chars(IntToString(i)) \o Chars(". ")
                            \o movies[i + 1].title)

\* the numbering of C5 on the sequences get_movies_by_actor does return a
\* result for: every parsed non-empty discovery that did not panic
NumberedWhenReturned ==
    (MoviesDiscovered /\ responses[1].body.results # <<>>) =>
        LET movies == responses[1].body.results IN
        /\ outcome = Ok(outcome.content, FALSE, NoMeta)
        /\ Len(outcome.content) = 1
        /\ outcome.content[1].type = "text"
        /\ LET lines == LinesOf(outcome.content[1].text) IN
           /\ Len(lines) = Len(movies)
           /\ \A i \in 0..(Len(movies) - 1) :
                 StartsWith(lines[i + 1],
                            Chars(IntToString(i)) \o Chars(". ")
                            \o movies[i + 1].title)

\* two movies came back, in this order, and were numbered 0 and 1; the year
\* of the second is the first four bytes of "a" + euro + euro
NumberedWitness ==
    /\ MoviesDiscovered
    /\ responses[1].body.results =
          <<[title |-> Chars("Rocky"), release_date |-> Chars("1993-11-19")],
            [title |-> Chars("Up"), release_date |-> <<97, 8364, 8364>>]>>
    /\ outcome.content =
          <<TextContent(Chars("0. Rocky (1993)\n1. Up (a") \o <<8364>> \o Chars(")"))>>

\* -------------------------------------------------------------------- C6
\* C6: in each formatted movie line the suffix '(YYYY)', the first four
\* characters of the release date, is rendered whenever the release date has
\* at least 4 characters, and the line has no parenthesis at all when it has
\* fewer.
C6_YearFromFourCharacters ==
    (MoviesDiscovered /\ responses[1].body.results # <<>>) =>
        LET movies == responses[1].body.results
            lines == LinesOf(outcome.content[1].text)
        IN  \A k \in 1..Len(movies) :
               IF Len(movies[k].release_date) >= 4
               THEN EndsWith(lines[k],
                             Chars("(") \o SubSeq(movies[k].release_date, 1, 4)
                             \o Chars(")"))
               ELSE ~HasChar(lines[k], "(") /\ ~HasChar(lines[k], ")")

\* -------------------------------------------------------------------- C7
\* C7 as stated: decoding succeeds only for a present, non-empty string
\* actor_name (get_actor_info) or a present integer actor_id
\* (get_movies_by_actor); every other bag is rejected and no invoke runs.
C7_EmptyNameRejected ==
    pc # "idle" =>
        \/ params.name = "get_actor_info"
              /\ params.arguments.actor_name.kind = "string"
              /\ params.arguments.actor_name.s # ""
        \/ params.name = "get_movies_by_actor"
              /\ params.arguments.actor_id.kind = "int"
        \/ tool = NoTool /\ requests = <<>> /\ outcome.kind = "Err"

\* C7 amended: decoding succeeds exactly when actor_name is present and a
\* string, the empty string included (get_actor_info), or actor_id is present
\* and an integer an i64 holds (get_movies_by_actor); then the tool's invoke
\* runs with that value; every other bag is rejected and no invoke runs.
C7_DecodesExactlyTypedBags ==
    pc # "idle" =>
        IF params.name = "get_actor_info"
              /\ params.arguments.actor_name.kind = "string"
        THEN tool = GetActorInfo(params.arguments.actor_name.s)
                /\ requests # <<>>
        ELSE IF params.name = "get_movies_by_actor"
                   /\ params.arguments.actor_id.kind = "int"
        THEN tool = GetMoviesByActor(params.arguments.actor_id.n)
                /\ requests # <<>>
        ELSE tool = NoTool /\ requests = <<>> /\ outcome.kind = "Err"

\* get_actor_info was decoded from the empty name and its search was sent
C7_Witness ==
    /\ pc = "search"
    /\ params.arguments.actor_name = JStr("")
    /\ tool = GetActorInfo("")
    /\ requests = <<SearchRequest("")>>

\* -------------------------------------------------------------------- C8
\* C8 as stated: a network failure in a tool is surfaced as a returned result
\* carrying the error flag, the outcome kind of NotFound, and never through
\* the handler's error return, which is the kind of invalid requests.
C8_NetworkFailureIsAResult ==
    pc = "returned" =>
        /\ tool = NoTool => outcome.kind = "Err"
        /\ (tool # NoTool /\ FailedAt(Len(responses))) =>
               outcome.kind = "Ok" /\ outcome.is_error

\* C8 amended: a network failure in the person search, the detail fetch or
\* the movie discovery is surfaced through the handler's error return with
\* the stringified message, the outcome kind of an invalid request; only
\* NotFound is surfaced as a returned result carrying the error flag; a
\* failed profile-image fetch returns nothing (the invocation panics).
C8_NetworkFailureIsAnErrReturn ==
    Ended =>
        /\ tool = NoTool => outcome.kind = "Err"
        /\ (tool # NoTool /\ FailedAt(Len(responses))) =>
               IF requests[Len(responses)].endpoint = "image"
               THEN outcome.kind = "Panic"
               ELSE /\ outcome.kind = "Err"
                    /\ outcome.message =
                          (IF responses[Len(responses)].sent
                           THEN DecodeError ELSE SendError)
        /\ (outcome.kind = "Ok" /\ outcome.is_error) =>
               /\ \A k \in 1..Len(responses) : ~FailedAt(k)
               /\ IF tool.variant = "GetActorInfo"
                  THEN SearchYieldsNoId(responses[1])
                  ELSE responses[1].body.results = <<>>

\* the discovery request could not be sent and the handler returned Err
C8_Witness ==
    /\ pc = "returned"
    /\ tool.variant = "GetMoviesByActor"
    /\ responses = <<TransportError>>
    /\ outcome = Err(SendError)

\* -------------------------------------------------------------------- C9
\* C9: get_actor_info issues its requests one after another in the order
\* search, detail, image, each only after the previous one was answered
\* successfully (the detail one for the first identifier found), none
\* repeated, so at most three; get_movies_by_actor issues exactly one.
C9_RequestsInSequence ==
    /\ Len(responses) <= Len(requests)
    /\ Len(requests) <= Len(responses) + 1
    /\ tool = NoTool => requests = <<>>
    /\ tool.variant = "GetMoviesByActor" =>
          requests = <<DiscoverRequest(tool.actor_id)>>
    /\ tool.variant = "GetActorInfo" =>
          /\ Len(requests) \in 1..3
          /\ \A k \in 1..Len(requests) :
                requests[k].endpoint = <<"search", "person", "image">>[k]
          /\ Len(requests) >= 2 =>
                /\ ~FailedAt(1)
                /\ ~SearchYieldsNoId(responses[1])
                /\ \E k \in 1..Len(responses[1].body.items) :
                      /\ responses[1].body.items[k].has_id
                      /\ \A j \in 1..(k - 1) : ~responses[1].body.items[j].has_id
                      /\ requests[2] =
                            DetailRequest(responses[1].body.items[k].id)
          /\ Len(requests) = 3 =>
                /\ ~FailedAt(2)
                /\ responses[2].body.details.profile_path.some

\* a get_actor_info invocation went through its three requests and returned
C9_Witness ==
    /\ pc = "returned"
    /\ tool.variant = "GetActorInfo"
    /\ Len(requests) = 3
    /\ Len(responses) = 3
    /\ requests[2].url = "https://api.themoviedb.org/3/person/12"
    /\ outcome.kind = "Ok"

\* ------------------------------------------------------------------- C10
\* C10: every result call_tool returns without the error flag carries
\* content: get_movies_by_actor exactly one text item, get_actor_info one
\* text item followed by one image item tagged image/jpeg; an empty content
\* sequence occurs only in an error.
C10_NonErrorResultHasContent ==
    (pc = "returned" /\ outcome.kind = "Ok" /\ ~outcome.is_error) =>
        /\ outcome.content # <<>>
        /\ tool.variant = "GetMoviesByActor" =>
              /\ Len(outcome.content) = 1
              /\ outcome.content[1].type = "text"
        /\ tool.variant = "GetActorInfo" =>
              /\ Len(outcome.content) = 2
              /\ outcome.content[1].type = "text"
              /\ outcome.content[2].type = "image"
              /\ outcome.content[2].mime_type = "image/jpeg"

\* get_actor_info returned the text block and the one-byte image, encoded
C10_Witness ==
    /\ pc = "returned"
    /\ tool.variant = "GetActorInfo"
    /\ outcome.kind = "Ok"
    /\ ~outcome.is_error
    /\ responses[3].body.bytes = <<77>>
    /\ outcome.content[1].text =
          "ID: 12\nName: Al Po\nDate of Birth: \nPlace of Birth: NYC\nBiography: Bio."
    /\ outcome.content[2] = ImageContent("TQ==", "image/jpeg")

====
